---- MODULE Spec2Model ----
(***************************************************************************)
(* A model of transformerlab/question_answering.py: the two feature        *)
(* builders (prepare_train_features, prepare_validation_features), the     *)
(* span decoder (_postprocess_qa_predictions) and the evaluate/predict     *)
(* wrappers of QuestionAnsweringTrainer.                                   *)
(*                                                                         *)
(* Python lists are modelled as TLA+ sequences; Python positions are kept  *)
(* 0-based (At, Idx) so that negative indices wrap as they do in Python.   *)
(* None is <<>> where the value is otherwise a tuple or a list.            *)
(***************************************************************************)
EXTENDS Integers, Sequences, FiniteSets, TLC

VARIABLES
    \* ---- feature builders ------------------------------------------------
    pad_on_right,      \* the pad_on_right argument
    ex_ids,            \* examples["id"]
    answers,           \* examples["answers"]: per example a list of <<answer_start, len(text)>>
    input_ids,         \* tokenized_examples["input_ids"]: per window the token kinds
    sequence_ids,      \* tokenized_examples.sequence_ids(i), per window
    offset_mapping,    \* per window the (char_start, char_end) of every token
    tok_offsets,       \* the offsets as the tokenizer returned them (never written)
    sample_mapping,    \* overflow_to_sample_mapping, 0-based example index per window
    fb_i,              \* the loop index i of the builder's for loop
    start_positions,   \* tokenized_examples["start_positions"]
    end_positions,     \* tokenized_examples["end_positions"]
    example_id,        \* tokenized_examples["example_id"]
    fb_pc              \* "train" | "validation" | "done" | "off"

VARIABLES
    \* ---- span decoder: arguments ----------------------------------------
    examples,          \* list of [id, context]; a context is a list of characters
    features,          \* list of [example_id, offset_mapping, token_is_max_context]
    pred_arg,          \* the predictions argument: a list of arrays of logit rows
    args,              \* self.args: version_2_with_negative, n_best_size,
                       \* max_answer_length, null_score_diff_threshold
    \* ---- span decoder: locals -------------------------------------------
    dec_pc,            \* "enter" | "windows" | "answer" | "returned" | "raised" | "off"
    error,             \* the exception raised, "" when none
    features_per_example, \* example index -> list of feature indices
    example_index,     \* loop index of the for loop over examples
    min_null_prediction,  \* <<>> for None, else <<the record>>
    prelim_predictions,
    predictions,       \* the n-best list of the example (the rebound local)
    null_score,
    all_predictions    \* the OrderedDict, as the list of its [id, text] items

decVars == <<examples, features, pred_arg, args, dec_pc, error, features_per_example,
             example_index, min_null_prediction, prelim_predictions, predictions,
             null_score, all_predictions>>

VARIABLES
    \* ---- two decodes of one input under two thresholds -------------------
    mono_lo,           \* the lower null_score_diff_threshold
    mono_hi,           \* the higher null_score_diff_threshold
    mono_out_lo,       \* what the call gives under mono_lo: [error, all_predictions]
    mono_out_hi,       \* what the call gives under mono_hi
    mono_pc            \* "call" | "done" | "off"

monoVars == <<mono_lo, mono_hi, mono_out_lo, mono_out_hi, mono_pc>>

VARIABLES
    \* ---- QuestionAnsweringTrainer ----------------------------------------
    self_eval_examples,    \* self.eval_examples: <<>> for None, else <<the list of ids>>
    self_compute_metrics,  \* whether self.compute_metrics is set
    ev_call,               \* the last call: "" | "evaluate" | "predict"
    ev_error,              \* the exception the last call raised, "" when none
    ev_examples,           \* the examples the last call decoded
    ev_predictions,        \* ids of EvalPrediction.predictions handed to the metric
    ev_label_ids           \* ids of EvalPrediction.label_ids handed to the metric

evVars == <<self_eval_examples, self_compute_metrics, ev_call, ev_error, ev_examples,
            ev_predictions, ev_label_ids>>

fbVars == <<pad_on_right, ex_ids, answers, input_ids, sequence_ids, offset_mapping,
            tok_offsets, sample_mapping, fb_i, start_positions, end_positions,
            example_id, fb_pc>>

vars == <<fbVars, decVars, monoVars, evVars>>

notBuilder == <<decVars, monoVars, evVars>>
notDecoder == <<fbVars, monoVars, evVars>>
notMono == <<fbVars, evVars>>
notTrainer == <<fbVars, decVars, monoVars>>

-----------------------------------------------------------------------------
(* Bounds of the model *)
CtxLen == 4          \* characters in a context
MaxCtxTokens == 3    \* context tokens the tokenizer may produce for an example
CtxPerWindow == 2    \* context tokens that fit one window (max_length less the
                     \* question and the three special tokens)

-----------------------------------------------------------------------------
(* Python helpers *)

None == <<>>
NoneSeq == -1        \* sequence_ids(i)[k] of a special or padding token (None)

Min(a, b) == IF a <= b THEN a ELSE b

\* s[i] of a Python list: 0-based, negative i counts from the end
At(s, i) == IF i >= 0 THEN s[i + 1] ELSE s[Len(s) + i + 1]

\* does s[i] raise IndexError
OutOfRange(s, i) == i >= Len(s) \/ i < 0 - Len(s)

\* s + [x] * n
RECURSIVE Repeat(_, _)
Repeat(x, n) == IF n <= 0 THEN <<>> ELSE <<x>> \o Repeat(x, n - 1)

\* list.index(x): first 0-based position of x
RECURSIVE IndexOf(_, _, _)
IndexOf(s, x, k) == IF s[k + 1] = x THEN k ELSE IndexOf(s, x, k + 1)

-----------------------------------------------------------------------------
(* The tokenizer collaborator.  It is called with truncation of the context *)
(* only, stride doc_stride, return_overflowing_tokens, return_offsets_mapping*)
(* and padding="max_length".  A context is given by the character spans of  *)
(* its tokens; the question is fixed.  With pad_on_right the layout is      *)
(*   [CLS] question [SEP] context [SEP] [PAD]*                              *)
(* and otherwise (a tokenizer that pads on the left)                        *)
(*   [PAD]* context [SEP] question [SEP] [CLS].                             *)
(* Special and padding tokens have offsets (0, 0) and sequence id None.     *)

QuestionOffsets == << <<0, 1>>, <<2, 4>> >>

doc_stride == CtxPerWindow - 1

max_length == Len(QuestionOffsets) + CtxPerWindow + 3

\* the character spans a token can have
Spans == { sp \in (0..CtxLen) \X (0..CtxLen) : sp[1] < sp[2] }

\* the token spans of a context: non-empty, increasing, non-overlapping
IsTokenization(t) ==
    /\ \A k \in 1..Len(t) : t[k][1] < t[k][2]
    /\ \A k \in 1..(Len(t) - 1) : t[k][2] <= t[k + 1][1]

Tokenizations ==
    { t \in UNION { [1..n -> Spans] : n \in 1..MaxCtxTokens } : IsTokenization(t) }

\* number of windows of a context of n tokens
NumWindows(n) ==
    IF n <= CtxPerWindow THEN 1
    ELSE 1 + ((n - CtxPerWindow) + (CtxPerWindow - doc_stride) - 1)
                 \div (CtxPerWindow - doc_stride)

\* the context tokens (1-based positions in t) of window w (0-based)
WindowSlice(t, w) ==
    LET first == w * (CtxPerWindow - doc_stride) + 1
        last  == Min(first + CtxPerWindow - 1, Len(t))
    IN  SubSeq(t, first, last)

ZeroZero == <<0, 0>>

ContextId(por) == IF por THEN 1 ELSE 0

\* one padded window: token kinds, sequence ids, offsets
Window(c, por) ==
    LET q    == QuestionOffsets
        npad == CtxPerWindow - Len(c)
        k(x, n) == Repeat(x, n)
    IN  IF por
        THEN [ ids |-> <<"CLS">> \o k("Q", Len(q)) \o <<"SEP">> \o k("C", Len(c))
                          \o <<"SEP">> \o k("PAD", npad),
               seq |-> <<NoneSeq>> \o k(0, Len(q)) \o <<NoneSeq>> \o k(1, Len(c))
                          \o <<NoneSeq>> \o k(NoneSeq, npad),
               off |-> <<ZeroZero>> \o q \o <<ZeroZero>> \o c
                          \o <<ZeroZero>> \o k(ZeroZero, npad) ]
        ELSE [ ids |-> k("PAD", npad) \o k("C", Len(c)) \o <<"SEP">> \o k("Q", Len(q))
                          \o <<"SEP">> \o <<"CLS">>,
               seq |-> k(NoneSeq, npad) \o k(0, Len(c)) \o <<NoneSeq>> \o k(1, Len(q))
                          \o <<NoneSeq>> \o <<NoneSeq>>,
               off |-> k(ZeroZero, npad) \o c \o <<ZeroZero>> \o q
                          \o <<ZeroZero>> \o <<ZeroZero>> ]

\* the windows of one example
TokenizeOne(t, por) == [ w \in 1..NumWindows(Len(t)) |-> Window(WindowSlice(t, w - 1), por) ]

\* the windows of a batch of examples (contexts: the tokenization of each),
\* each window tagged with the 0-based index of its example
RECURSIVE Tokenizer(_, _, _)
Tokenizer(contexts, por, k) ==
    IF k > Len(contexts) THEN <<>>
    ELSE [ w \in 1..NumWindows(Len(contexts[k])) |->
             [ win |-> TokenizeOne(contexts[k], por)[w], sample |-> k - 1 ] ]
         \o Tokenizer(contexts, por, k + 1)

-----------------------------------------------------------------------------
(* prepare_train_features: the label of one window *)

\* the context/question flag the loops compare sequence_ids against
RECURSIVE FirstContext(_, _, _)
FirstContext(seq, por, idx) ==
    IF At(seq, idx) # ContextId(por) THEN FirstContext(seq, por, idx + 1) ELSE idx

RECURSIVE LastContext(_, _, _)
LastContext(seq, por, idx) ==
    IF At(seq, idx) # ContextId(por) THEN LastContext(seq, por, idx - 1) ELSE idx

\* SpanInWindow without its test of the answer's end
SpanInWindow_StartOnly(offsets, token_start_index, token_end_index, start_char, end_char) ==
    At(offsets, token_start_index)[1] <= start_char

\* [start_char, end_char) lies inside the characters of the context tokens
SpanInWindow(offsets, token_start_index, token_end_index, start_char, end_char) ==
    /\ At(offsets, token_start_index)[1] <= start_char
    /\ At(offsets, token_end_index)[2] >= end_char

\* while token_start_index < len(offsets) and offsets[token_start_index][0] <= start_char
RECURSIVE ScanStart(_, _, _)
ScanStart(offsets, idx, start_char) ==
    IF idx < Len(offsets) /\ At(offsets, idx)[1] <= start_char
    THEN ScanStart(offsets, idx + 1, start_char)
    ELSE idx

\* while offsets[token_end_index][1] >= end_char
RECURSIVE ScanEnd(_, _, _)
ScanEnd(offsets, idx, end_char) ==
    IF At(offsets, idx)[2] >= end_char
    THEN ScanEnd(offsets, idx - 1, end_char)
    ELSE idx

cls_index(ids) == IndexOf(ids, "CLS", 0)

StartChar(ans) == ans[1][1]
EndChar(ans) == ans[1][1] + ans[1][2]

\* <<start_position, end_position>> appended for one window
TrainLabel(ids, seq, offsets, ans, por) ==
    IF Len(ans) = 0
    THEN <<cls_index(ids), cls_index(ids)>>
    ELSE LET token_start_index == FirstContext(seq, por, 0)
             token_end_index   == LastContext(seq, por, Len(ids) - 1)
         IN  IF ~SpanInWindow(offsets, token_start_index, token_end_index,
                              StartChar(ans), EndChar(ans))
             THEN <<cls_index(ids), cls_index(ids)>>
             ELSE << ScanStart(offsets, token_start_index, StartChar(ans)) - 1,
                     ScanEnd(offsets, token_end_index, EndChar(ans)) + 1 >>

\* one iteration of the for loop over the windows
TrainWindow ==
    /\ fb_pc = "train"
    /\ fb_i < Len(input_ids)
    /\ LET i      == fb_i + 1
           ans    == At(answers, At(sample_mapping, fb_i))
           label  == TrainLabel(input_ids[i], sequence_ids[i], offset_mapping[i],
                                ans, pad_on_right)
       IN  /\ start_positions' = Append(start_positions, label[1])
           /\ end_positions' = Append(end_positions, label[2])
    /\ fb_i' = fb_i + 1
    /\ UNCHANGED <<pad_on_right, ex_ids, answers, input_ids, sequence_ids, offset_mapping,
                   tok_offsets, sample_mapping, example_id, fb_pc>>
    /\ UNCHANGED notBuilder

\* return tokenized_examples
BuilderReturn ==
    /\ fb_pc \in {"train", "validation"}
    /\ fb_i = Len(input_ids)
    /\ fb_pc' = "done"
    /\ UNCHANGED <<pad_on_right, ex_ids, answers, input_ids, sequence_ids, offset_mapping,
                   tok_offsets, sample_mapping, fb_i, start_positions, end_positions,
                   example_id>>
    /\ UNCHANGED notBuilder

\* the answers of an example: none, one, or two (only the first is read);
\* an answer is <<answer_start, len(text)>> of a non-empty text of the context
AnswerSet == { a \in (0..CtxLen) \X (1..CtxLen) : a[1] + a[2] <= CtxLen }
SecondAnswer == <<0, 1>>
AnswerLists == {<<>>} \cup { <<a>> : a \in AnswerSet }
                      \cup { <<a, SecondAnswer>> : a \in AnswerSet }

\* the trainer's variables while it is not the subject
TrainerIdle ==
    /\ self_eval_examples = <<>>
    /\ self_compute_metrics = FALSE
    /\ ev_call = ""
    /\ ev_error = ""
    /\ ev_examples = <<>>
    /\ ev_predictions = <<>>
    /\ ev_label_ids = <<>>

MonoIdle ==
    /\ mono_lo = 0
    /\ mono_hi = 0
    /\ mono_out_lo = <<>>
    /\ mono_out_hi = <<>>
    /\ mono_pc = "off"

\* the decoder's variables while a feature builder runs
DecoderIdle ==
    /\ TrainerIdle
    /\ MonoIdle
    /\ examples = <<>>
    /\ features = <<>>
    /\ pred_arg = <<>>
    /\ args = <<>>
    /\ dec_pc = "off"
    /\ error = ""
    /\ features_per_example = <<>>
    /\ example_index = 0
    /\ min_null_prediction = <<>>
    /\ prelim_predictions = <<>>
    /\ predictions = <<>>
    /\ null_score = 0
    /\ all_predictions = <<>>

\* a batch of two examples over the same tokenized context
InitBuilder(mode) ==
    \E t \in Tokenizations, por \in BOOLEAN :
        LET wins == Tokenizer(<<t, t>>, por, 1) IN
        /\ pad_on_right = por
        /\ ex_ids = <<"q1", "q2">>
        /\ input_ids = [ w \in 1..Len(wins) |-> wins[w].win.ids ]
        /\ sequence_ids = [ w \in 1..Len(wins) |-> wins[w].win.seq ]
        /\ offset_mapping = [ w \in 1..Len(wins) |-> wins[w].win.off ]
        /\ tok_offsets = [ w \in 1..Len(wins) |-> wins[w].win.off ]
        /\ sample_mapping = [ w \in 1..Len(wins) |-> wins[w].sample ]
        /\ fb_i = 0
        /\ start_positions = <<>>
        /\ end_positions = <<>>
        /\ example_id = <<>>
        /\ fb_pc = mode
        /\ DecoderIdle

InitTrain ==
    /\ InitBuilder("train")
    /\ \E a \in AnswerLists, b \in {<<>>, <<SecondAnswer>>} : answers = <<a, b>>

NextTrain == TrainWindow \/ BuilderReturn

SpecTrain == InitTrain /\ [][NextTrain]_vars

-----------------------------------------------------------------------------
(* prepare_validation_features *)

\* NullNonContext keeping every token that belongs to a sequence
NullNonContext_KeepQuestion(offsets, seq, por) ==
    [ k \in 1..Len(offsets) |-> IF seq[k] # NoneSeq THEN offsets[k] ELSE None ]

\* [(o if sequence_ids[k] == context_index else None) for k, o in enumerate(...)]
NullNonContext(offsets, seq, por) ==
    [ k \in 1..Len(offsets) |-> IF seq[k] = ContextId(por) THEN offsets[k] ELSE None ]

\* one iteration of the for loop over the windows
ValidationWindow ==
    /\ fb_pc = "validation"
    /\ fb_i < Len(input_ids)
    /\ LET i == fb_i + 1
           sample_index == At(sample_mapping, fb_i)
       IN  /\ example_id' = Append(example_id, At(ex_ids, sample_index))
           /\ offset_mapping' =
                 [offset_mapping EXCEPT ![i] =
                      NullNonContext(offset_mapping[i], sequence_ids[i], pad_on_right)]
    /\ fb_i' = fb_i + 1
    /\ UNCHANGED <<pad_on_right, ex_ids, answers, input_ids, sequence_ids, tok_offsets,
                   sample_mapping, start_positions, end_positions, fb_pc>>
    /\ UNCHANGED notBuilder

\* validation reads no answers
InitValidation ==
    /\ InitBuilder("validation")
    /\ answers = << <<>>, <<>> >>

NextValidation == ValidationWindow \/ BuilderReturn

SpecValidation == InitValidation /\ [][NextValidation]_vars

-----------------------------------------------------------------------------
(* _postprocess_qa_predictions: pure parts *)

EmptyText == <<>>
PlaceholderText == <<"e", "m", "p", "t", "y">>

\* context[a:b] for 0 <= a, 0 <= b
Slice(s, a, b) == SubSeq(s, a + 1, Min(b, Len(s)))

all_start_logits == pred_arg[1]
all_end_logits == pred_arg[2]

\* example_id_to_index[id]
ExampleIndexOf(id) == CHOOSE x \in 0..(Len(examples) - 1) : examples[x + 1].id = id

\* features_per_example[x]: the feature indices of example x, in feature order
RECURSIVE FeatureIndices(_, _)
FeatureIndices(x, i) ==
    IF i >= Len(features) THEN <<>>
    ELSE (IF ExampleIndexOf(features[i + 1].example_id) = x THEN <<i>> ELSE <<>>)
         \o FeatureIndices(x, i + 1)

\* np.argsort(row): positions by ascending value, equal values in index order
ArgSort(row) ==
    LET n == Len(row)
        Before(i) == Cardinality({ j \in 0..(n - 1) :
                        \/ At(row, j) < At(row, i)
                        \/ (At(row, j) = At(row, i) /\ j < i) })
    IN  [ p \in 1..n |-> CHOOSE i \in 0..(n - 1) : Before(i) = p - 1 ]

\* np.argsort(row)[-1 : -n_best_size - 1 : -1].tolist()
TopIndexes(row, n_best_size) ==
    LET order == ArgSort(row)
    IN  [ p \in 1..Min(n_best_size, Len(row)) |-> order[Len(row) - p + 1] ]

\* Rejected without the max_answer_length test
Rejected_NoLength(fi, start_index, end_index) ==
    LET offsets == features[fi + 1].offset_mapping
        token_is_max_context == features[fi + 1].token_is_max_context
    IN  \/ start_index >= Len(offsets)
        \/ end_index >= Len(offsets)
        \/ At(offsets, start_index) = None
        \/ At(offsets, end_index) = None
        \/ end_index < start_index
        \/ (token_is_max_context # None /\ start_index \notin token_is_max_context[1])

\* the continue tests of the double loop over start_indexes and end_indexes
Rejected(fi, start_index, end_index) ==
    LET offsets == features[fi + 1].offset_mapping
        token_is_max_context == features[fi + 1].token_is_max_context
    IN  \/ start_index >= Len(offsets)
        \/ end_index >= Len(offsets)
        \/ At(offsets, start_index) = None
        \/ At(offsets, end_index) = None
        \/ end_index < start_index
        \/ end_index - start_index + 1 > args.max_answer_length
        \/ (token_is_max_context # None /\ start_index \notin token_is_max_context[1])

\* the dict appended to prelim_predictions; feature, start_index and end_index
\* are not in the code's dict: they record where the candidate came from
Candidate(fi, start_index, end_index) ==
    LET offsets == features[fi + 1].offset_mapping
        start_logits == At(all_start_logits, fi)
        end_logits == At(all_end_logits, fi)
    IN  [ offsets     |-> <<At(offsets, start_index)[1], At(offsets, end_index)[2]>>,
          score       |-> At(start_logits, start_index) + At(end_logits, end_index),
          start_logit |-> At(start_logits, start_index),
          end_logit   |-> At(end_logits, end_index),
          feature     |-> fi,
          start_index |-> start_index,
          end_index   |-> end_index ]

\* the candidates one feature adds to prelim_predictions, in loop order
Candidates(fi) ==
    LET start_indexes == TopIndexes(At(all_start_logits, fi), args.n_best_size)
        end_indexes == TopIndexes(At(all_end_logits, fi), args.n_best_size)
        ns == Len(start_indexes)
        ne == Len(end_indexes)
        pairs == [ p \in 1..(ns * ne) |->
                     <<start_indexes[((p - 1) \div ne) + 1], end_indexes[((p - 1) % ne) + 1]>> ]
        Kept(pr) == ~Rejected(fi, pr[1], pr[2])
        kept == SelectSeq(pairs, Kept)
    IN  [ p \in 1..Len(kept) |-> Candidate(fi, kept[p][1], kept[p][2]) ]

\* the null prediction of one feature
NullPrediction(fi) ==
    [ offsets     |-> ZeroZero,
      score       |-> At(At(all_start_logits, fi), 0) + At(At(all_end_logits, fi), 0),
      start_logit |-> At(At(all_start_logits, fi), 0),
      end_logit   |-> At(At(all_end_logits, fi), 0),
      feature     |-> fi,
      start_index |-> 0,
      end_index   |-> 0 ]

\* min_null_prediction after one more feature
UpdateNull(cur, fi) ==
    IF cur = None \/ cur[1].score > NullPrediction(fi).score
    THEN <<NullPrediction(fi)>>
    ELSE cur

\* the inner for loop over feature_indices[k..]: <<min_null_prediction, prelim_predictions>>
RECURSIVE WindowLoop(_, _, _, _)
WindowLoop(feature_indices, k, cur, prelim) ==
    IF k > Len(feature_indices) THEN <<cur, prelim>>
    ELSE WindowLoop(feature_indices, k + 1, UpdateNull(cur, feature_indices[k]),
                    prelim \o Candidates(feature_indices[k]))

\* the first feature of the list whose row all_end_logits[feature_index] is missing
MissingRow(feature_indices) ==
    \E k \in 1..Len(feature_indices) : OutOfRange(all_end_logits, feature_indices[k])

\* descending, equal scores in reverse list order (an ascending sort, reversed)
SortedByScore_TiesReversed(l) ==
    LET Before(i) == Cardinality({ j \in 1..Len(l) :
                        \/ l[j].score > l[i].score
                        \/ (l[j].score = l[i].score /\ j > i) })
    IN  [ p \in 1..Len(l) |-> l[CHOOSE i \in 1..Len(l) : Before(i) = p - 1] ]

\* sorted(l, key=score, reverse=True): descending, equal scores in list order
SortedByScore(l) ==
    LET Before(i) == Cardinality({ j \in 1..Len(l) :
                        \/ l[j].score > l[i].score
                        \/ (l[j].score = l[i].score /\ j < i) })
    IN  [ p \in 1..Len(l) |-> l[CHOOSE i \in 1..Len(l) : Before(i) = p - 1] ]

\* l[:n]
Take(l, n) == SubSeq(l, 1, Min(n, Len(l)))

\* the n-best list before texts: sort, cut, and the null prediction forced back
Ranked(prelim, min_null) ==
    LET withNull == IF args.version_2_with_negative THEN prelim \o min_null ELSE prelim
        cut == Take(SortedByScore(withNull), args.n_best_size)
    IN  IF args.version_2_with_negative
           /\ ~\E p \in 1..Len(cut) : cut[p].offsets = ZeroZero
        THEN cut \o min_null
        ELSE cut

\* pred.pop("offsets"); pred["text"] = context[offsets[0] : offsets[1]]
WithText(pred, context) ==
    [ text        |-> Slice(context, pred.offsets[1], pred.offsets[2]),
      score       |-> pred.score,
      start_logit |-> pred.start_logit,
      end_logit   |-> pred.end_logit ]

Placeholder == [ text |-> PlaceholderText, start_logit |-> 0, end_logit |-> 0, score |-> 0 ]

\* the n-best list with texts, the placeholder put in front when it applies
NBest(prelim, min_null, context) ==
    LET ranked == Ranked(prelim, min_null)
        texts == [ p \in 1..Len(ranked) |-> WithText(ranked[p], context) ]
    IN  IF Len(texts) = 0 \/ (Len(texts) = 1 /\ texts[1].text = EmptyText)
        THEN <<Placeholder>> \o texts
        ELSE texts

\* i after `while predictions[i]["text"] == "": i += 1`, Len(l) when it runs off the list
RECURSIVE FirstNonEmpty(_, _)
FirstNonEmpty(l, i) ==
    IF i >= Len(l) THEN i
    ELSE IF At(l, i).text = EmptyText THEN FirstNonEmpty(l, i + 1) ELSE i

\* the choice between "" and the best non-null text, with >= for >
NullOrBest_AtLeast(nscore, best, threshold) ==
    IF nscore - best.start_logit - best.end_logit >= threshold
    THEN EmptyText
    ELSE best.text

\* the choice between "" and the best non-null text, with < for >
NullOrBest_Below(nscore, best, threshold) ==
    IF nscore - best.start_logit - best.end_logit < threshold
    THEN EmptyText
    ELSE best.text

\* the choice between "" and the best non-null text
NullOrBest(nscore, best, threshold) ==
    IF nscore - best.start_logit - best.end_logit > threshold
    THEN EmptyText
    ELSE best.text

\* lines 295-330 for one example: the n-best list and the answer, or the
\* exception: min_null_prediction["score"] of None, predictions[i] past the end
AnswerOrError(prelim, min_null, context, threshold) ==
    LET v2 == args.version_2_with_negative
        nbest == NBest(prelim, min_null, context)
        i == FirstNonEmpty(nbest, 0)
    IN  IF v2 /\ min_null = None
        THEN [ error |-> "TypeError", nbest |-> <<>>, text |-> EmptyText ]
        ELSE IF v2 /\ i >= Len(nbest)
        THEN [ error |-> "IndexError", nbest |-> nbest, text |-> EmptyText ]
        ELSE [ error |-> "", nbest |-> nbest,
               text |-> IF ~v2 THEN nbest[1].text
                        ELSE NullOrBest(min_null[1].score, At(nbest, i), threshold) ]

\* all_predictions[id] = text
DictSet(d, id, text) ==
    IF \E p \in 1..Len(d) : d[p].id = id
    THEN [ p \in 1..Len(d) |-> IF d[p].id = id THEN [id |-> id, text |-> text] ELSE d[p] ]
    ELSE Append(d, [id |-> id, text |-> text])

-----------------------------------------------------------------------------
(* _postprocess_qa_predictions: the steps *)

\* the two asserts, the unpacking and the grouping of features by example
Enter ==
    /\ dec_pc = "enter"
    /\ IF Len(pred_arg) # 2 \/ Len(pred_arg[1]) # Len(features)
       THEN /\ dec_pc' = "raised"
            /\ error' = "AssertionError"
            /\ UNCHANGED <<features_per_example, all_predictions, example_index>>
       ELSE /\ features_per_example' =
                  [ x \in 0..(Len(examples) - 1) |-> FeatureIndices(x, 0) ]
            /\ all_predictions' = <<>>
            /\ example_index' = 0
            /\ dec_pc' = "windows"
            /\ UNCHANGED error
    /\ UNCHANGED <<examples, features, pred_arg, args, min_null_prediction,
                   prelim_predictions, predictions, null_score>>
    /\ UNCHANGED notDecoder

\* one example: the loop over its features, which collects the candidates
ExampleWindows ==
    /\ dec_pc = "windows"
    /\ example_index < Len(examples)
    /\ LET feature_indices == features_per_example[example_index]
       IN  IF MissingRow(feature_indices)
           THEN /\ dec_pc' = "raised"
                /\ error' = "IndexError"
                /\ UNCHANGED <<min_null_prediction, prelim_predictions>>
           ELSE /\ min_null_prediction' = WindowLoop(feature_indices, 1, None, <<>>)[1]
                /\ prelim_predictions' = WindowLoop(feature_indices, 1, None, <<>>)[2]
                /\ dec_pc' = "answer"
                /\ UNCHANGED error
    /\ UNCHANGED <<examples, features, pred_arg, args, features_per_example,
                   example_index, predictions, null_score, all_predictions>>
    /\ UNCHANGED notDecoder

\* one example: ranking, texts, placeholder and the answer put in all_predictions
\* (the softmax only adds a "probability" to each entry of the n-best list, which
\* nothing reads afterwards; the null prediction appended to prelim_predictions
\* is added in Ranked)
ExampleAnswer ==
    /\ dec_pc = "answer"
    /\ LET example == At(examples, example_index)
           r == AnswerOrError(prelim_predictions, min_null_prediction, example.context,
                              args.null_score_diff_threshold)
       IN  /\ error' = r.error
           /\ null_score' = IF args.version_2_with_negative /\ min_null_prediction # None
                             THEN min_null_prediction[1].score
                             ELSE null_score
           /\ predictions' = IF r.error = "TypeError" THEN predictions ELSE r.nbest
           /\ IF r.error # ""
              THEN /\ dec_pc' = "raised"
                   /\ UNCHANGED <<all_predictions, example_index>>
              ELSE /\ all_predictions' = DictSet(all_predictions, example.id, r.text)
                   /\ example_index' = example_index + 1
                   /\ dec_pc' = "windows"
    /\ UNCHANGED <<examples, features, pred_arg, args, features_per_example,
                   min_null_prediction, prelim_predictions>>
    /\ UNCHANGED notDecoder

\* return all_predictions
Return ==
    /\ dec_pc = "windows"
    /\ example_index = Len(examples)
    /\ dec_pc' = "returned"
    /\ UNCHANGED <<examples, features, pred_arg, args, error, features_per_example,
                   example_index, min_null_prediction, prelim_predictions, predictions,
                   null_score, all_predictions>>
    /\ UNCHANGED notDecoder

-----------------------------------------------------------------------------
(* The decoder's inputs *)

MaxNBest == 2          \* n_best_size ranges over 1..MaxNBest
MaxAnswerLength == 2   \* max_answer_length ranges over 1..MaxAnswerLength

LogitValues == {0, 1}
Thresholds == {0, 1}

Example1 == [ id |-> "q1", context |-> <<"a", "b", "a">> ]
Example2 == [ id |-> "q2", context |-> <<"b", "b", "a">> ]
ExampleLists == { <<Example1>>, <<Example1, Example2>> }

Ids(exs) == { exs[x].id : x \in 1..Len(exs) }

Configs ==
    { c \in [ version_2_with_negative : BOOLEAN,
              n_best_size : 1..MaxNBest,
              max_answer_length : 1..MaxAnswerLength,
              null_score_diff_threshold : Thresholds ] :
        c.version_2_with_negative \/ c.null_score_diff_threshold = 0 }

\* offset mappings of a window of three tokens as prepare_validation_features
\* leaves them: None at the sentinel and at question, special and padding tokens.
\* The third is shorter than the logit rows.
Layouts ==
    { << None, <<0, 1>>, <<1, 3>> >>,
      << None, <<0, 2>>, None >>,
      << None, <<2, 3>> >>,
      << None, None, None >> }

\* token_is_max_context: absent, or the set of token indices it maps to True
Markers == { None, <<{1}>> }

Rows(n) == [ 1..n -> LogitValues ]

\* one window of three tokens
OneWindow ==
    { [ features |-> << [ example_id |-> id, offset_mapping |-> om,
                          token_is_max_context |-> mk ] >>,
        starts |-> <<s>>, ends |-> <<e>> ] :
        id \in {"q1", "q2"}, om \in Layouts, mk \in Markers, s \in Rows(3), e \in Rows(3) }

\* two overlapping windows of two tokens each, of one example or of two
TwoWindows ==
    { [ features |-> << [ example_id |-> o[1], offset_mapping |-> << None, <<0, 2>> >>,
                          token_is_max_context |-> mk[1] ],
                        [ example_id |-> o[2], offset_mapping |-> << None, <<1, 3>> >>,
                          token_is_max_context |-> mk[2] ] >>,
        starts |-> <<s1, s2>>, ends |-> <<e1, e2>> ] :
        o \in { <<"q1", "q1">>, <<"q1", "q2">>, <<"q2", "q1">> },
        mk \in { <<None, None>>, << <<{1}>>, <<{}>> >> },
        s1 \in Rows(2), s2 \in Rows(2), e1 \in Rows(2), e2 \in Rows(2) }

NoWindow == { [ features |-> <<>>, starts |-> <<>>, ends |-> <<>> ] }

Inputs == OneWindow \cup TwoWindows \cup NoWindow

\* every feature belongs to one of the examples
Owned(in, exs) == \A f \in 1..Len(in.features) : in.features[f].example_id \in Ids(exs)

DecoderLocals ==
    /\ dec_pc = "enter"
    /\ error = ""
    /\ features_per_example = <<>>
    /\ example_index = 0
    /\ min_null_prediction = None
    /\ prelim_predictions = <<>>
    /\ predictions = <<>>
    /\ null_score = 0
    /\ all_predictions = <<>>

\* a call whose logits are a pair of arrays with one row per feature
InitWellShaped ==
    \E exs \in ExampleLists, in \in Inputs, c \in Configs :
        /\ Owned(in, exs)
        /\ examples = exs
        /\ features = in.features
        /\ pred_arg = <<in.starts, in.ends>>
        /\ args = c
        /\ DecoderLocals

\* the ways the logits can break the caller's contract
Misshaped(starts, ends) ==
    { <<starts>>,
      <<starts, ends, ends>>,
      <<SubSeq(starts, 1, Len(starts) - 1), ends>>,
      <<starts \o <<starts[1]>>, ends>>,
      <<starts, SubSeq(ends, 1, Len(ends) - 1)>>,
      <<starts, ends \o <<ends[1]>> >> }

\* a call that breaks the contract, over the two-window inputs without markers
InitMisshaped ==
    \E in \in TwoWindows, c \in Configs :
        /\ in.features[1].token_is_max_context = None
        /\ in.starts[2] = in.ends[2]
        /\ c.n_best_size = 1 /\ c.max_answer_length = 1 /\ c.null_score_diff_threshold = 0
        /\ examples = <<Example1, Example2>>
        /\ features = in.features
        /\ pred_arg \in Misshaped(in.starts, in.ends)
        /\ args = c
        /\ DecoderLocals

BuilderIdle ==
    /\ pad_on_right = TRUE
    /\ ex_ids = <<>>
    /\ answers = <<>>
    /\ input_ids = <<>>
    /\ sequence_ids = <<>>
    /\ offset_mapping = <<>>
    /\ tok_offsets = <<>>
    /\ sample_mapping = <<>>
    /\ fb_i = 0
    /\ start_positions = <<>>
    /\ end_positions = <<>>
    /\ example_id = <<>>
    /\ fb_pc = "off"

InitDecode == (InitWellShaped \/ InitMisshaped) /\ BuilderIdle /\ MonoIdle /\ TrainerIdle

NextDecode == Enter \/ ExampleWindows \/ ExampleAnswer \/ Return

SpecDecode == InitDecode /\ [][NextDecode]_vars

-----------------------------------------------------------------------------
(* _postprocess_qa_predictions as a function of its arguments, used to      *)
(* decode one input under two values of null_score_diff_threshold            *)

\* the loop over examples from example x on: [error, all_predictions]
RECURSIVE DecodeFrom(_, _, _)
DecodeFrom(x, all, threshold) ==
    IF x >= Len(examples) THEN [ error |-> "", all_predictions |-> all ]
    ELSE LET feature_indices == FeatureIndices(x, 0)
             loop == WindowLoop(feature_indices, 1, None, <<>>)
             r == AnswerOrError(loop[2], loop[1], At(examples, x).context, threshold)
         IN  IF MissingRow(feature_indices)
             THEN [ error |-> "IndexError", all_predictions |-> all ]
             ELSE IF r.error # ""
             THEN [ error |-> r.error, all_predictions |-> all ]
             ELSE DecodeFrom(x + 1, DictSet(all, At(examples, x).id, r.text), threshold)

\* the whole call
Postprocess(threshold) ==
    IF Len(pred_arg) # 2 \/ Len(pred_arg[1]) # Len(features)
    THEN [ error |-> "AssertionError", all_predictions |-> <<>> ]
    ELSE DecodeFrom(0, <<>>, threshold)

\* the call with null_score_diff_threshold = mono_lo
DecodeLow ==
    /\ mono_pc = "call"
    /\ mono_out_lo = <<>>
    /\ mono_out_lo' = <<Postprocess(mono_lo)>>
    /\ mono_pc' = IF mono_out_hi # <<>> THEN "done" ELSE "call"
    /\ UNCHANGED <<mono_lo, mono_hi, mono_out_hi>>
    /\ UNCHANGED <<decVars, notMono>>

\* the call with null_score_diff_threshold = mono_hi
DecodeHigh ==
    /\ mono_pc = "call"
    /\ mono_out_hi = <<>>
    /\ mono_out_hi' = <<Postprocess(mono_hi)>>
    /\ mono_pc' = IF mono_out_lo # <<>> THEN "done" ELSE "call"
    /\ UNCHANGED <<mono_lo, mono_hi, mono_out_lo>>
    /\ UNCHANGED <<decVars, notMono>>

MonoThresholds == {-1, 0, 1}

\* version-2 decodes of one well-shaped input under thresholds mono_lo < mono_hi
InitMono ==
    /\ \E exs \in ExampleLists, in \in Inputs, c \in Configs :
          /\ Owned(in, exs)
          /\ c.version_2_with_negative /\ c.null_score_diff_threshold = 0
          /\ examples = exs
          /\ features = in.features
          /\ pred_arg = <<in.starts, in.ends>>
          /\ args = c
          /\ DecoderLocals
    /\ \E lo, hi \in MonoThresholds :
          /\ lo < hi
          /\ mono_lo = lo
          /\ mono_hi = hi
    /\ mono_out_lo = <<>>
    /\ mono_out_hi = <<>>
    /\ mono_pc = "call"
    /\ BuilderIdle
    /\ TrainerIdle

NextMono == DecodeLow \/ DecodeHigh

SpecMono == InitMono /\ [][NextMono]_vars

-----------------------------------------------------------------------------
(* QuestionAnsweringTrainer.evaluate and predict *)

ExampleIds == {"q1", "q2", "q3"}

\* lists of examples, by their ids
IdLists == { <<a>> : a \in ExampleIds }
               \cup { l \in { <<a, b>> : a \in ExampleIds, b \in ExampleIds } : l[1] # l[2] }

\* the keys of the mapping _postprocess_qa_predictions returns: one per example
DecodedIds(exs) == exs

\* [{"id": ex["id"], "answers": ex["answers"]} for ex in self.eval_examples]
References(exs) == self_eval_examples[1]

\* _post_process_function(examples, features, predictions): the ids of the
\* predictions and of the references, or the TypeError of examples["id"] or of
\* iterating self.eval_examples when that is None
PostProcess(exs) ==
    IF exs = None \/ self_eval_examples = None
    THEN [ error |-> "TypeError", predictions |-> <<>>, label_ids |-> <<>> ]
    ELSE [ error |-> "", predictions |-> DecodedIds(exs[1]),
           label_ids |-> References(exs[1]) ]

\* the part evaluate and predict share once the prediction loop has run and
\* self.compute_metrics is restored; exs is <<>> for None, else <<the list>>
MetricCall(name, exs) ==
    /\ ev_call' = name
    /\ ev_examples' = exs
    /\ IF self_compute_metrics
       THEN /\ ev_error' = PostProcess(exs).error
            /\ ev_predictions' = PostProcess(exs).predictions
            /\ ev_label_ids' = PostProcess(exs).label_ids
       ELSE /\ ev_error' = ""
            /\ ev_predictions' = <<>>
            /\ ev_label_ids' = <<>>
    /\ UNCHANGED <<self_eval_examples, self_compute_metrics>>
    /\ UNCHANGED notTrainer

\* evaluate(eval_dataset, eval_examples): eval_examples defaults to self.eval_examples
Evaluate ==
    \E arg \in {None} \cup { <<l>> : l \in IdLists } :
        MetricCall("evaluate", IF arg = None THEN self_eval_examples ELSE arg)

\* predict(test_dataset, test_examples)
Predict ==
    \E arg \in { <<l>> : l \in IdLists } :
        MetricCall("predict", arg)

\* QuestionAnsweringTrainer(..., compute_metrics=..., eval_examples=...)
InitTrainer ==
    /\ self_eval_examples \in {None} \cup { <<l>> : l \in IdLists }
    /\ self_compute_metrics \in BOOLEAN
    /\ ev_call = ""
    /\ ev_error = ""
    /\ ev_examples = <<>>
    /\ ev_predictions = <<>>
    /\ ev_label_ids = <<>>
    /\ BuilderIdle
    /\ MonoIdle
    /\ examples = <<>>
    /\ features = <<>>
    /\ pred_arg = <<>>
    /\ args = <<>>
    /\ dec_pc = "off"
    /\ error = ""
    /\ features_per_example = <<>>
    /\ example_index = 0
    /\ min_null_prediction = <<>>
    /\ prelim_predictions = <<>>
    /\ predictions = <<>>
    /\ null_score = 0
    /\ all_predictions = <<>>

NextTrainer == Evaluate \/ Predict

SpecTrainer == InitTrainer /\ [][NextTrainer]_vars

-----------------------------------------------------------------------------
(* What the feature-builder claims speak of, stated from the tokenizer's    *)
(* output rather than from the loops above                                   *)

\* 0-based positions of the context tokens of window w (1-based window number)
ContextPositions(w) ==
    { k \in 0..(Len(sequence_ids[w]) - 1) :
          sequence_ids[w][k + 1] = (IF pad_on_right THEN 1 ELSE 0) }

ContextLo(w) == CHOOSE k \in ContextPositions(w) : \A j \in ContextPositions(w) : k <= j
ContextHi(w) == CHOOSE k \in ContextPositions(w) : \A j \in ContextPositions(w) : k >= j

SentinelIndex(w) == CHOOSE k \in 0..(Len(input_ids[w]) - 1) :
                        /\ input_ids[w][k + 1] = "CLS"
                        /\ \A j \in 0..(k - 1) : input_ids[w][j + 1] # "CLS"

AnswersOf(w) == answers[sample_mapping[w] + 1]

\* the first answer's span is inside the characters covered by the window's context
AnswerInWindow(w) ==
    /\ tok_offsets[w][ContextLo(w) + 1][1] <= StartChar(AnswersOf(w))
    /\ tok_offsets[w][ContextHi(w) + 1][2] >= EndChar(AnswersOf(w))

\* tokens a..b of window w cover the first answer's span
Covers(w, a, b) ==
    /\ tok_offsets[w][a + 1][1] <= StartChar(AnswersOf(w))
    /\ tok_offsets[w][b + 1][2] >= EndChar(AnswersOf(w))

Labelled == 1..Len(start_positions)

\* C1: a window is labelled (sentinel, sentinel) exactly when its example has no
\* answer or the first answer's character span is not inside the characters its
\* own context tokens cover; sibling windows of the example do not matter.
C1_SentinelIff ==
    \A w \in Labelled :
        (start_positions[w] = SentinelIndex(w) /\ end_positions[w] = SentinelIndex(w))
        <=> (Len(AnswersOf(w)) = 0 \/ ~AnswerInWindow(w))

\* two windows of one answerable example: one holds the answer and is labelled
\* with a span, its sibling does not and is labelled with the sentinel
C1_Witness ==
    /\ fb_pc = "done"
    /\ \E v, w \in Labelled :
        /\ v # w
        /\ sample_mapping[v] = sample_mapping[w]
        /\ Len(AnswersOf(w)) > 0
        /\ AnswerInWindow(w) /\ ~AnswerInWindow(v)
        /\ start_positions[v] = SentinelIndex(v) /\ end_positions[v] = SentinelIndex(v)
        /\ start_positions[w] # SentinelIndex(w)

\* C2: when the first answer's span is inside the window's context, the label is
\* the tightest pair of context tokens covering it: both inside the context
\* range, start <= end, covering, and no narrower pair of the range covers it.
C2_TightestPair ==
    \A w \in Labelled :
        (Len(AnswersOf(w)) > 0 /\ AnswerInWindow(w)) =>
            LET sp == start_positions[w]
                ep == end_positions[w]
            IN  /\ ContextLo(w) <= sp /\ sp <= ep /\ ep <= ContextHi(w)
                /\ Covers(w, sp, ep)
                /\ \A a, b \in sp..ep : (a <= b /\ Covers(w, a, b)) => (a = sp /\ b = ep)

\* C8: after prepare_validation_features has handled a window, its offset_mapping
\* entry at k is None exactly when k is not a context token and is the
\* tokenizer's pair otherwise; the mapping keeps the length of the token
\* sequence; example_id is the id of the example sample_mapping points to.
C8_ValidationOffsets ==
    \A w \in 1..Len(example_id) :
        /\ Len(offset_mapping[w]) = Len(input_ids[w])
        /\ \A k \in 0..(Len(input_ids[w]) - 1) :
              /\ (offset_mapping[w][k + 1] = None) <=> (k \notin ContextPositions(w))
              /\ k \in ContextPositions(w) => offset_mapping[w][k + 1] = tok_offsets[w][k + 1]
        /\ example_id[w] = ex_ids[sample_mapping[w] + 1]

\* all windows of a two-example batch handled: windows of both examples, with
\* question, special and padding positions nulled and context positions kept
C8_Witness ==
    /\ fb_pc = "done"
    /\ start_positions = <<>>
    /\ \E v, w \in 1..Len(example_id) :
          /\ example_id[v] = "q1" /\ example_id[w] = "q2"
          /\ \E j, k \in 0..(Len(input_ids[w]) - 1) :
                /\ input_ids[w][j + 1] = "Q" /\ offset_mapping[w][j + 1] = None
                /\ tok_offsets[w][j + 1] # ZeroZero
                /\ input_ids[w][k + 1] = "C" /\ offset_mapping[w][k + 1] # None

-----------------------------------------------------------------------------
(* What the decoder claims speak of, stated from the arguments and the      *)
(* variables the steps leave behind                                          *)

\* an example has just been decoded: it is example number example_index
\* (1-based), and the locals are those of its decode
Decoded == dec_pc \in {"windows", "returned"} /\ example_index >= 1

LastExample == examples[example_index]

\* the text all_predictions holds for the example just decoded
LastAnswer ==
    all_predictions[CHOOSE p \in 1..Len(all_predictions) :
                        all_predictions[p].id = LastExample.id].text

\* the windows (1-based feature numbers) of the example just decoded
LastWindows == { f \in 1..Len(features) : features[f].example_id = LastExample.id }

\* start_logit[0] + end_logit[0] of window f
NullSum(f) == pred_arg[1][f][1] + pred_arg[2][f][1]

\* the first window whose null sum is the least of the example's windows
FirstLeastNull ==
    CHOOSE f \in LastWindows :
        /\ \A g \in LastWindows : NullSum(f) <= NullSum(g)
        /\ \A g \in LastWindows : g < f => NullSum(g) > NullSum(f)

\* the first entry of the n-best list whose text is not empty
BestNonNull ==
    predictions[CHOOSE i \in 1..Len(predictions) :
                    /\ predictions[i].text # EmptyText
                    /\ \A j \in 1..(i - 1) : predictions[j].text = EmptyText]

\* C3: in version-2 mode the answer is "" exactly when
\* null_score - best_non_null.start_logit - best_non_null.end_logit exceeds the
\* threshold and is the best non-empty text of the n-best list otherwise; the
\* null score is the least start_logit[0] + end_logit[0] of the example's
\* windows, taken from the first window that attains it.
C3_NullDecision ==
    (Decoded /\ args.version_2_with_negative) =>
        /\ null_score = NullSum(FirstLeastNull)
        /\ min_null_prediction[1].score = NullSum(FirstLeastNull)
        /\ min_null_prediction[1].start_logit = pred_arg[1][FirstLeastNull][1]
        /\ min_null_prediction[1].end_logit = pred_arg[2][FirstLeastNull][1]
        /\ (LastAnswer = EmptyText) <=>
              (NullSum(FirstLeastNull) - BestNonNull.start_logit - BestNonNull.end_logit
                  > args.null_score_diff_threshold)
        /\ LastAnswer # EmptyText => LastAnswer = BestNonNull.text

\* an example of two windows whose null sums tie with different logits,
\* answered with a span of the context under a threshold that is not zero
C3_Witness ==
    /\ Decoded /\ args.version_2_with_negative
    /\ args.null_score_diff_threshold = 1
    /\ Cardinality(LastWindows) = 2
    /\ \A f \in LastWindows : NullSum(f) = 1
    /\ \E f, g \in LastWindows : pred_arg[1][f][1] # pred_arg[1][g][1]
    /\ LastAnswer # EmptyText /\ LastAnswer # PlaceholderText
    /\ NullSum(FirstLeastNull) - BestNonNull.start_logit - BestNonNull.end_logit = 1

\* the candidate that heads the ranking: the first of those with the highest score
TopCandidate ==
    prelim_predictions[CHOOSE k \in 1..Len(prelim_predictions) :
        /\ \A j \in 1..Len(prelim_predictions) :
              prelim_predictions[j].score <= prelim_predictions[k].score
        /\ \A j \in 1..(k - 1) : prelim_predictions[j].score < prelim_predictions[k].score]

\* the logits of the example peak sharply at start token s and end token e of
\* window f (1-based feature number, 0-based tokens), both context tokens, s <= e
Peak(f, s, e) ==
    LET om == features[f].offset_mapping IN
    /\ s < Len(om) /\ e < Len(om) /\ s <= e
    /\ At(om, s) # None /\ At(om, e) # None
    /\ \A g \in LastWindows : \A k \in 0..(Len(pred_arg[1][g]) - 1) :
          <<g, k>> # <<f, s>> => At(pred_arg[1][g], k) < At(pred_arg[1][f], s)
    /\ \A g \in LastWindows : \A k \in 0..(Len(pred_arg[2][g]) - 1) :
          <<g, k>> # <<f, e>> => At(pred_arg[2][g], k) < At(pred_arg[2][f], e)

\* the span s..e of window f passes the decoder's length and max-context tests
Survives(f, s, e) ==
    /\ e - s + 1 <= args.max_answer_length
    /\ \/ features[f].token_is_max_context = None
       \/ s \in features[f].token_is_max_context[1]

TokenPositions(f) == 0..(Len(pred_arg[1][f]) - 1)

\* the answer is the text of the head of the ranking ("empty" when nothing is ranked)
TopRankedAnswer ==
    /\ prelim_predictions # <<>> =>
          LastAnswer = Slice(LastExample.context, TopCandidate.offsets[1],
                             TopCandidate.offsets[2])
    /\ prelim_predictions = <<>> => LastAnswer = PlaceholderText

\* C4 as stated: without null answers the answer is the text of the head of the
\* stable descending ranking of the example's candidates, and whenever the logits
\* peak sharply at the start and end tokens of an answer inside a window's
\* context the answer is exactly that slice of the context.
C4_RoundTripAlways ==
    (Decoded /\ ~args.version_2_with_negative) =>
        /\ TopRankedAnswer
        /\ \A f \in LastWindows : \A s, e \in TokenPositions(f) :
              Peak(f, s, e) =>
                  LastAnswer = Slice(LastExample.context,
                                     At(features[f].offset_mapping, s)[1],
                                     At(features[f].offset_mapping, e)[2])

\* C4 amended: the same, for answers of at most max_answer_length tokens whose
\* start token is marked max-context in the window when the window has a marker.
C4_RoundTripWhenSurviving ==
    (Decoded /\ ~args.version_2_with_negative) =>
        /\ TopRankedAnswer
        /\ \A f \in LastWindows : \A s, e \in TokenPositions(f) :
              (Peak(f, s, e) /\ Survives(f, s, e)) =>
                  LastAnswer = Slice(LastExample.context,
                                     At(features[f].offset_mapping, s)[1],
                                     At(features[f].offset_mapping, e)[2])

\* a two-token answer decoded back from sharply peaked logits, found among
\* several ranked candidates
C4_Witness ==
    /\ Decoded /\ ~args.version_2_with_negative
    /\ Len(prelim_predictions) >= 2
    /\ \E f \in LastWindows : \E s, e \in TokenPositions(f) :
          /\ s < e /\ Peak(f, s, e) /\ Survives(f, s, e)
          /\ LastAnswer = <<"a", "b", "a">>

\* the logits are a pair of arrays with one row per feature each
ShapesMatch ==
    /\ Len(pred_arg) = 2
    /\ Len(pred_arg[1]) = Len(features)
    /\ Len(pred_arg[2]) = Len(features)

\* C5: the decode of an example never raises: with well-shaped logits the call
\* returns a mapping with exactly one entry per example, in both modes, also for
\* an example without windows or without surviving candidates, and the
\* placeholder heads the n-best list when nothing or only an empty text is ranked.
C5_NeverRaises ==
    ShapesMatch =>
        /\ dec_pc # "raised"
        /\ dec_pc = "returned" =>
              \A x \in 1..Len(examples) :
                  Cardinality({ p \in 1..Len(all_predictions) :
                                  all_predictions[p].id = examples[x].id }) = 1
        /\ Decoded =>
              /\ predictions # <<>>
              /\ ~(Len(predictions) = 1 /\ predictions[1].text = EmptyText)
              /\ prelim_predictions = <<>> => predictions[1] = Placeholder

\* C6: logits that are not a pair, or whose start or end array has not one row
\* per feature, make the call fail with the assertion before any example is decoded.
C6_FailFast ==
    ~ShapesMatch =>
        /\ dec_pc \in {"enter", "raised"}
        /\ dec_pc = "raised" => error = "AssertionError"

\* C7: every candidate in prelim_predictions comes from token indices inside the
\* window's offset mapping with offsets that are not None, start <= end, at most
\* max_answer_length tokens, a max-context start token when the window has a
\* marker; its score is the sum of the two logits and its offsets are
\* (offset[start][0], offset[end][1]).
C7_CandidatesValid ==
    \A p \in 1..Len(prelim_predictions) :
        LET c  == prelim_predictions[p]
            f  == c.feature + 1
            om == features[f].offset_mapping
            mk == features[f].token_is_max_context
        IN  /\ 0 <= c.start_index /\ c.start_index < Len(om)
            /\ 0 <= c.end_index /\ c.end_index < Len(om)
            /\ om[c.start_index + 1] # None /\ om[c.end_index + 1] # None
            /\ c.start_index <= c.end_index
            /\ c.end_index - c.start_index + 1 <= args.max_answer_length
            /\ mk # None => c.start_index \in mk[1]
            /\ c.start_logit = pred_arg[1][f][c.start_index + 1]
            /\ c.end_logit = pred_arg[2][f][c.end_index + 1]
            /\ c.score = c.start_logit + c.end_logit
            /\ c.offsets = <<om[c.start_index + 1][1], om[c.end_index + 1][2]>>

\* candidates were emitted, one of them two tokens long, while a longer logit
\* row than the offset mapping, a None offset or a marker made others drop out
C7_Witness ==
    /\ dec_pc = "answer"
    /\ \E p, q \in 1..Len(prelim_predictions) :
          /\ prelim_predictions[p].start_index < prelim_predictions[p].end_index
          /\ prelim_predictions[q].start_index = prelim_predictions[q].end_index
    /\ args.max_answer_length = 2
    /\ args.n_best_size = 2
    /\ Len(prelim_predictions) < 4

-----------------------------------------------------------------------------
(* The two-threshold claim and the trainer claim *)

MonoDone == mono_pc = "done"

\* the answers of the two calls, as sets of [id, text]
LowAnswers == { mono_out_lo[1].all_predictions[p] :
                    p \in 1..Len(mono_out_lo[1].all_predictions) }
HighAnswers == { mono_out_hi[1].all_predictions[p] :
                    p \in 1..Len(mono_out_hi[1].all_predictions) }

\* C9: for thresholds mono_lo < mono_hi and the same examples, windows and
\* logits, an example answered with a non-empty text under mono_lo is answered
\* with the same text under mono_hi.
C9_Monotone ==
    MonoDone =>
        /\ mono_out_lo[1].error = mono_out_hi[1].error
        /\ \A a \in LowAnswers : a.text # EmptyText => a \in HighAnswers

\* both calls returned, and raising the threshold turned one example's ""
\* into a text while another example kept its text
C9_Witness ==
    /\ MonoDone
    /\ mono_out_lo[1].error = "" /\ mono_out_hi[1].error = ""
    /\ \E a \in LowAnswers : a.text = EmptyText /\ a \notin HighAnswers
    /\ \E a \in LowAnswers : a.text # EmptyText /\ a \in HighAnswers

\* s as a set
Range(s) == { s[p] : p \in 1..Len(s) }

\* C10: when evaluate or predict hands predictions and references to the
\* metric, the references are those of the examples that were decoded: the two
\* sets of ids are equal, whatever self.eval_examples holds.
C10_SameExamples ==
    (ev_call # "" /\ self_compute_metrics /\ ev_error = "") =>
        Range(ev_label_ids) = Range(ev_predictions)

====
